---- MODULE Spec2Model ----
(***************************************************************************)
(* The city weather pipeline of learnify-health-aws-backend: the intake    *)
(* handler (lambda/src/city-processor.ts), the enrichment handler          *)
(* (lambda/src/weather-processor.ts) and the description handler           *)
(* (llm-processor.ts), over a record store keyed by (cityId, timestamp),   *)
(* two queues and a notifier.                                              *)
(*                                                                         *)
(* Every `await` of a handler is one step.  A call to an external          *)
(* collaborator (store, queue, notifier, provider) either takes effect or  *)
(* throws; which of the two is an input of the step.                       *)
(*                                                                         *)
(* An optional field of a record is a set: {} when the field is absent,    *)
(* {v} when it holds v.  A string the code inspects character by character *)
(* (cityName) is a sequence of one-character strings.                      *)
(***************************************************************************)
EXTENDS Integers, Sequences, FiniteSets, TLC

VARIABLES
    now,        \* the last reading of the clock (Date.now(), new Date()), in milliseconds
    store,      \* the table: (cityId, timestamp) -> item
    queueA,     \* city-processing queue: intake -> enrichment
    queueB,     \* queue between enrichment and description
    dlq,        \* messages moved to a dead-letter queue, with the queue's name
    sns,        \* notifications published, with their number
    nextMsg,    \* next SQS message id
    resp,       \* the HTTP response the city handler returns in this step, if any
    ipc, idata, \* intake invocation: position, processingData
    wpc, wmsg, wdata, werr,  \* enrichment invocation: position, record, updatedData, caught error
    lpc, lmsg, ldata, lerr,  \* description invocation: position, record, completedData, caught error
    wbatch,     \* enrichment invocation on several records: event.Records and the loop's place
    lbatch,     \* description invocation on several records: event.Records and the loop's place
    faults,     \* history: number of calls to a collaborator that threw
    requests,   \* history: number of POST /cities requests that passed validation
    accepted,   \* history: cityId -> cityName of the requests answered 202
    touched,    \* history: cityIds whose Queue A message the enrichment handler has started on
    provFailed, \* history: cityIds for which the weather provider call failed
    written     \* history: the records whose PutItem took effect

vars == <<now, store, queueA, queueB, dlq, sns, nextMsg, resp, ipc, idata,
          wpc, wmsg, wdata, werr, lpc, lmsg, ldata, lerr, wbatch, lbatch,
          faults, requests, accepted, touched, provFailed, written>>

----------------------------------------------------------------------------
(* Bounds *)

MaxTime == 2        \* the clock runs over 1..MaxTime
MaxRequests == 1    \* POST /cities requests that reach the store write
MaxFaults == 2      \* calls to a collaborator that throw
MaxIntake == 2      \* POST /cities requests when intake is looked at alone
BatchSize == 2      \* records of one event handed to a queue handler
MaxForeign == 1     \* records put on a queue by a producer other than the pipeline

----------------------------------------------------------------------------
(* Values *)

Absent == {}
Opt(v) == {v}

\* the sort key read by the status lookup; no ISO timestamp equals it
Latest == 0

MaxReceiveCount == 3

CityNames == { <<"N", " ", " ", "Y">>, <<"n", " ", "y">>, <<"n", "-", "y">>, <<"n">> }

LowerCase(c) ==
    CASE c = "N" -> "n"
      [] c = "Y" -> "y"
      [] OTHER -> c

IsSpace(c) == c = " "

\* cityName.toLowerCase().replace(/\s+/g, "-")
RECURSIVE Slug(_)
Slug(s) ==
    IF s = <<>> THEN <<>>
    ELSE IF IsSpace(Head(s))
         THEN IF Len(s) > 1 /\ IsSpace(s[2])
              THEN Slug(Tail(s))
              ELSE <<"-">> \o Slug(Tail(s))
         ELSE <<LowerCase(Head(s))>> \o Slug(Tail(s))

Digit(d) ==
    CASE d = 0 -> "0" [] d = 1 -> "1" [] d = 2 -> "2" [] d = 3 -> "3" [] d = 4 -> "4"
      [] d = 5 -> "5" [] d = 6 -> "6" [] d = 7 -> "7" [] d = 8 -> "8" [] d = 9 -> "9"

\* the decimal text of Date.now() in the template literal
RECURSIVE Decimal(_)
Decimal(n) == IF n < 10 THEN <<Digit(n)>> ELSE Decimal(n \div 10) \o <<Digit(n % 10)>>

\* the cityId made of the slug alone
MakeCityId_WithoutTime(cityName, ms) == Slug(cityName) \o <<"-">>

\* `${slug}-${Date.now()}`
MakeCityId(cityName, ms) == Slug(cityName) \o <<"-">> \o Decimal(ms)

\* a cityId no request was given
UnknownId == <<"x">>

\* request bodies of POST /cities: null, text that is not JSON, or a JSON object
NoBody == [kind |-> "null", cityName |-> Absent, countryCode |-> Absent]
BadJson == [kind |-> "malformed", cityName |-> Absent, countryCode |-> Absent]
JsonBody(n, c) == [kind |-> "json", cityName |-> n, countryCode |-> c]

Bodies ==
    { NoBody, BadJson,
      JsonBody(Absent, Absent), JsonBody(Absent, Opt("GB")), JsonBody(Opt(<<>>), Absent),
      JsonBody(Opt(<<"N", " ", " ", "Y">>), Opt("GB")) }

NoData == [cityId |-> UnknownId, cityName |-> Absent, countryCode |-> Absent,
           status |-> "none", timestamp |-> Latest, weatherData |-> Absent,
           llmDescription |-> Absent, error |-> Absent]

NoResp == [route |-> "none", code |-> 0, cityId |-> UnknownId, readOk |-> TRUE,
           body |-> NoData]

----------------------------------------------------------------------------
(* Collaborators *)

Key(cityId, timestamp) == <<cityId, timestamp>>

\* PutItemCommand: the item is stored under its own (cityId, timestamp)
PutItem(table, item) ==
    [k \in DOMAIN table \cup {Key(item.cityId, item.timestamp)} |->
        IF k = Key(item.cityId, item.timestamp) THEN item ELSE table[k]]

\* UpdateItemCommand on Key (cityId, "latest") with SET #status[, #error]: the item is
\* created when the key holds none (a table that refuses the SET of #timestamp, an
\* attribute of the key, is the case in which the call throws)
UpdateItem(table, cityId, status, error) ==
    LET k == Key(cityId, Latest)
        old == IF k \in DOMAIN table THEN table[k]
               ELSE [NoData EXCEPT !.cityId = cityId, !.timestamp = Latest]
        new == [old EXCEPT !.status = status,
                           !.error = IF error # Absent THEN error ELSE @]
    IN  [x \in DOMAIN table \cup {k} |-> IF x = k THEN new ELSE table[x]]

\* a message as the queue holds it: MessageBody, the MessageAttributes cityId and
\* cityName, whether the body is JSON text, the number of times it was received, and
\* whether it is visible to receivers
Message(id, data, cityId, cityName) ==
    [id |-> id, body |-> data,
     attributes |-> [cityId |-> cityId, cityName |-> cityName],
     json |-> TRUE, rc |-> 0, visible |-> TRUE]

NoMessage == Message(0, NoData, UnknownId, Absent)

\* an invocation of a queue handler on event.Records: whether it runs, has returned or
\* has thrown, its records, and how many of them the loop has taken
Batch(records) == [state |-> "running", records |-> records, taken |-> 0]

NoBatch == [state |-> "none", records |-> <<>>, taken |-> 0]

\* DeleteMessageCommand
DeleteMessage(queue, m) == { x \in queue : x.id # m.id }

\* the message becomes visible again when the invocation ended without deleting it
Release(queue, m) == { IF x.id = m.id THEN [x EXCEPT !.visible = TRUE] ELSE x : x \in queue }

\* ReceiveMessage: the message is handed to the function and hidden from other receivers
Receive(queue, m) ==
    { IF x.id = m.id THEN [x EXCEPT !.rc = @ + 1, !.visible = FALSE] ELSE x : x \in queue }

\* a collaborator's call throws or not
\* a reading of the clock: time has passed since the last one, or has not
Readings == now..MaxTime

Throws(failed) ==
    IF failed THEN faults < MaxFaults /\ faults' = faults + 1 ELSE faults' = faults



Notification(subject, data) ==
    [subject |-> subject, cityId |-> data.cityId, cityName |-> data.cityName,
     weatherData |-> data.weatherData, llmDescription |-> data.llmDescription,
     error |-> data.error]

\* PublishCommand: one more copy of the notification
Publish(topic, n) ==
    [x \in DOMAIN topic \cup {n} |->
        IF x = n THEN (IF n \in DOMAIN topic THEN topic[n] + 1 ELSE 1) ELSE topic[x]]

----------------------------------------------------------------------------
(* city-processor.ts *)

\* a response: the route that answered, the status code, the body's fields, and for
\* the status route the id asked for and whether the store's read returned
createResponse(route, code, cityId, readOk, body) ==
    [route |-> route, code |-> code, cityId |-> cityId, readOk |-> readOk, body |-> body]

ErrorResponse(route, code) == createResponse(route, code, UnknownId, TRUE, NoData)

\* !requestData.cityName: the field is missing or the empty string
Falsy(field) == field = Absent \/ field = Opt(<<>>)

NewProcessingData(body, ms) ==
    LET name == CHOOSE n \in body.cityName : TRUE
    IN  [cityId |-> MakeCityId(name, ms), cityName |-> body.cityName,
         countryCode |-> body.countryCode, status |-> "pending", timestamp |-> ms,
         weatherData |-> Absent, llmDescription |-> Absent, error |-> Absent]

AcceptedResponse(data) ==
    createResponse("cities", 202, data.cityId, TRUE,
                   [NoData EXCEPT !.cityId = data.cityId, !.cityName = data.cityName,
                                  !.status = "pending", !.timestamp = data.timestamp])

IntakeVars == <<ipc, idata>>
WeatherVars == <<wpc, wmsg, wdata, werr, wbatch>>
LLMVars == <<lpc, lmsg, ldata, lerr, lbatch>>
History == <<requests, accepted, touched, provFailed, written>>

\* the requests explored: at most max of those that carry a cityName
Within(body, max) == (body.kind = "json" /\ body.cityName # Absent) => requests < max

\* processCityRequest testing cityName === undefined instead of !cityName
ProcessCityRequest_EmptyNameAccepted(body, ms) ==
    /\ ipc = "idle"
    /\ UNCHANGED faults
    /\ IF body.kind = "null" THEN
            /\ resp' = ErrorResponse("cities", 400)
            /\ UNCHANGED <<ipc, idata, requests>>
       ELSE IF body.kind = "malformed" THEN
            /\ resp' = ErrorResponse("cities", 500)
            /\ UNCHANGED <<ipc, idata, requests>>
       ELSE IF body.cityName = Absent THEN
            /\ resp' = ErrorResponse("cities", 400)
            /\ UNCHANGED <<ipc, idata, requests>>
       ELSE /\ requests' = requests + 1
            /\ idata' = NewProcessingData(body, ms)
            /\ ipc' = "put"
            /\ resp' = NoResp
    /\ now' = ms
    /\ UNCHANGED <<store, queueA, queueB, dlq, sns, nextMsg, WeatherVars, LLMVars,
                   accepted, touched, provFailed, written>>

\* processCityRequest up to its first await: validation and the new record
ProcessCityRequest(body, ms) ==
    /\ ipc = "idle"
    /\ UNCHANGED faults
    /\ IF body.kind = "null" THEN
            /\ resp' = ErrorResponse("cities", 400)
            /\ UNCHANGED <<ipc, idata, requests>>
       ELSE IF body.kind = "malformed" THEN
            /\ resp' = ErrorResponse("cities", 500)
            /\ UNCHANGED <<ipc, idata, requests>>
       ELSE IF Falsy(body.cityName) THEN
            /\ resp' = ErrorResponse("cities", 400)
            /\ UNCHANGED <<ipc, idata, requests>>
       ELSE /\ requests' = requests + 1
            /\ idata' = NewProcessingData(body, ms)
            /\ ipc' = "put"
            /\ resp' = NoResp
    /\ now' = ms
    /\ UNCHANGED <<store, queueA, queueB, dlq, sns, nextMsg, WeatherVars, LLMVars,
                   accepted, touched, provFailed, written>>

\* processCityRequest catching the PutItem error and going on to the send
IntakePut_ErrorIgnored(ok) ==
    /\ ipc = "put"
    /\ Throws(~ok)
    /\ written' = IF ok THEN written \cup {idata} ELSE written
    /\ store' = IF ok THEN PutItem(store, idata) ELSE store
    /\ ipc' = "send"
    /\ resp' = NoResp
    /\ UNCHANGED idata
    /\ UNCHANGED <<now, queueA, queueB, dlq, sns, nextMsg, WeatherVars, LLMVars, requests, accepted, touched,
                   provFailed>>

\* await dynamodb.send(new PutItemCommand(...))
IntakePut(ok) ==
    /\ ipc = "put"
    /\ Throws(~ok)
    /\ written' = IF ok THEN written \cup {idata} ELSE written
    /\ IF ok THEN /\ store' = PutItem(store, idata)
                  /\ ipc' = "send"
                  /\ resp' = NoResp
                  /\ UNCHANGED idata
            ELSE /\ resp' = ErrorResponse("cities", 500)
                 /\ ipc' = "idle"
                 /\ idata' = NoData
                 /\ UNCHANGED store
    /\ UNCHANGED <<now, queueA, queueB, dlq, sns, nextMsg, WeatherVars, LLMVars, requests, accepted, touched,
                   provFailed>>

\* processCityRequest sending the cityId as the cityName attribute too
IntakeSend_IdAsNameAttribute(ok) ==
    /\ ipc = "send"
    /\ Throws(~ok)
    /\ IF ok THEN /\ queueA' = queueA \cup
                                  {Message(nextMsg, idata, idata.cityId,
                                           Opt(idata.cityId))}
                  /\ nextMsg' = nextMsg + 1
                  /\ ipc' = "publish"
                  /\ resp' = NoResp
                  /\ UNCHANGED idata
            ELSE /\ resp' = ErrorResponse("cities", 500)
                 /\ ipc' = "idle"
                 /\ idata' = NoData
                 /\ UNCHANGED <<queueA, nextMsg>>
    /\ UNCHANGED <<now, store, queueB, dlq, sns, WeatherVars, LLMVars, History>>

\* await sqs.send(new SendMessageCommand({QueueUrl: CITY_QUEUE_URL, ...}))
IntakeSend(ok) ==
    /\ ipc = "send"
    /\ Throws(~ok)
    /\ IF ok THEN /\ queueA' = queueA \cup
                                  {Message(nextMsg, idata, idata.cityId, idata.cityName)}
                  /\ nextMsg' = nextMsg + 1
                  /\ ipc' = "publish"
                  /\ resp' = NoResp
                  /\ UNCHANGED idata
            ELSE /\ resp' = ErrorResponse("cities", 500)
                 /\ ipc' = "idle"
                 /\ idata' = NoData
                 /\ UNCHANGED <<queueA, nextMsg>>
    /\ UNCHANGED <<now, store, queueB, dlq, sns, WeatherVars, LLMVars, History>>

\* await sns.send(new PublishCommand(...)), then the 202 response
IntakePublish(ok) ==
    /\ ipc = "publish"
    /\ Throws(~ok)
    /\ ipc' = "idle"
    /\ idata' = NoData
    /\ IF ok THEN /\ sns' = Publish(sns, Notification("City Processing Started", idata))
                  /\ resp' = AcceptedResponse(idata)
                  /\ accepted' = [x \in DOMAIN accepted \cup {idata.cityId} |->
                                    IF x = idata.cityId THEN idata.cityName ELSE accepted[x]]
            ELSE /\ resp' = ErrorResponse("cities", 500)
                 /\ UNCHANGED <<sns, accepted>>
    /\ UNCHANGED <<now, store, queueA, queueB, dlq, nextMsg, WeatherVars, LLMVars,
                   requests, touched, provFailed, written>>

\* the projection of a stored item returned by GET /status/{cityId}
Projection(item) == [item EXCEPT !.countryCode = Absent]

\* getProcessingStatus answering 404 from its catch block
getProcessingStatus_NotFoundOnError(cityId, readOk, table) ==
    IF ~readOk \/ Key(cityId, Latest) \notin DOMAIN table
    THEN createResponse("status", 404, cityId, readOk, NoData)
    ELSE createResponse("status", 200, cityId, TRUE, Projection(table[Key(cityId, Latest)]))

getProcessingStatus(cityId, readOk, table) ==
    IF ~readOk THEN createResponse("status", 500, cityId, FALSE, NoData)
    ELSE IF Key(cityId, Latest) \notin DOMAIN table
         THEN createResponse("status", 404, cityId, TRUE, NoData)
         ELSE createResponse("status", 200, cityId, TRUE,
                             Projection(table[Key(cityId, Latest)]))

\* the ids a caller asks for: the ids of the stored items, and one that was never handed out
KnownIds == { k[1] : k \in DOMAIN store } \cup {UnknownId}

\* GET /status/{cityId} taking the item it returns out of the table
GetStatus_RemovesItem(cityId, readOk) ==
    /\ resp' = getProcessingStatus(cityId, readOk, store)
    /\ Throws(~readOk)
    /\ store' = IF readOk
                THEN [k \in DOMAIN store \ {Key(cityId, Latest)} |-> store[k]]
                ELSE store
    /\ UNCHANGED <<now, queueA, queueB, dlq, sns, nextMsg, IntakeVars, WeatherVars,
                   LLMVars, History>>

\* GET /status/{cityId}
GetStatus(cityId, readOk) ==
    /\ resp' = getProcessingStatus(cityId, readOk, store)
    /\ Throws(~readOk)
    /\ UNCHANGED <<now, store, queueA, queueB, dlq, sns, nextMsg, IntakeVars, WeatherVars,
                   LLMVars, History>>

\* a path is the sequence of its pieces: each "/" and each text between two of them
HealthPath == <<"/", "health">>
StatusPrefix == <<"/", "status", "/">>
CitiesPath == <<"/", "cities">>
ApiV1Prefix == <<"/", "api", "/", "v1">>
UsersPath == <<"/", "api", "/", "v1", "/", "users">>

\* path.startsWith(prefix)
StartsWith(path, prefix) ==
    Len(path) >= Len(prefix) /\ SubSeq(path, 1, Len(prefix)) = prefix

Methods == {"GET", "POST", "PUT", "DELETE"}

\* the paths requested; "{cityId}" and "{id}" stand for the text of an id
Paths ==
    { HealthPath, HealthPath \o <<"/">>, <<"/">>, <<"/", "unknown">>,
      <<"/", "status">>, StatusPrefix \o <<"{cityId}">>, CitiesPath, CitiesPath \o <<"/">>,
      ApiV1Prefix, ApiV1Prefix \o <<"x">>, ApiV1Prefix \o <<"/", "orders">>,
      UsersPath, UsersPath \o <<"/", "{id}">> }

\* the body of a response that is not a job record
HttpBody(message, status, error) ==
    [message |-> message, status |-> status, error |-> error, users |-> Absent]

HealthResponse(route, message) ==
    createResponse(route, 200, UnknownId, TRUE, HttpBody(message, Opt("OK"), Absent))

NotFoundResponse(route, message) ==
    createResponse(route, 404, UnknownId, TRUE, HttpBody(message, Absent, Opt("Not Found")))

\* the handler returns a response without calling the store, a queue or the notifier
Respond(response) ==
    /\ resp' = response
    /\ UNCHANGED <<now, store, queueA, queueB, dlq, sns, nextMsg, IntakeVars, WeatherVars,
                   LLMVars, faults, History>>

\* handler with the path "/status" taken for the status route as well
CityRoute_StatusWithoutSlash(httpMethod, path) ==
    IF path = HealthPath /\ httpMethod = "GET" THEN "health"
    ELSE IF StartsWith(path, <<"/", "status">>) /\ httpMethod = "GET" THEN "status"
    ELSE IF path = CitiesPath /\ httpMethod = "POST" THEN "cities"
    ELSE "notfound"

\* handler: the branch a request takes
CityRoute(httpMethod, path) ==
    IF path = HealthPath /\ httpMethod = "GET" THEN "health"
    ELSE IF StartsWith(path, StatusPrefix) /\ httpMethod = "GET" THEN "status"
    ELSE IF path = CitiesPath /\ httpMethod = "POST" THEN "cities"
    ELSE "notfound"

\* handler of city-processor.ts; cityId is path.split("/")[2] of a status path, body the
\* event's body, and the clock and the store answer as they may
CityHandler(httpMethod, path) ==
    LET route == CityRoute(httpMethod, path)
    IN  CASE route = "health" ->
                Respond(HealthResponse("health", "Weather Processing Service is healthy"))
          [] route = "status" ->
                \E cityId \in KnownIds, readOk \in BOOLEAN : GetStatus(cityId, readOk)
          [] route = "cities" ->
                \E body \in Bodies, ms \in Readings :
                    Within(body, MaxRequests) /\ ProcessCityRequest(body, ms)
          [] OTHER -> Respond(NotFoundResponse("notfound", "Path not found"))

----------------------------------------------------------------------------
(* index.ts *)

\* the list GET /api/v1/users answers with
UsersList ==
    << [id |-> "1", name |-> "John Doe", email |-> "john@example.com"],
       [id |-> "2", name |-> "Jane Smith", email |-> "jane@example.com"] >>

UsersBody ==
    [HttpBody("Users retrieved successfully", Absent, Absent) EXCEPT !.users = Opt(UsersList)]

\* handleUsersEndpoint parsing the request body before it lists the users
handleUsersEndpoint_ListParsesBody(httpMethod, path, hasId, body) ==
    IF httpMethod = "GET" /\ path = UsersPath
    THEN IF body.kind = "malformed"
         THEN createResponse("index.error", 500, UnknownId, TRUE,
                             HttpBody("An unexpected error occurred", Absent,
                                      Opt("Internal Server Error")))
         ELSE createResponse("index.users", 200, UnknownId, TRUE, UsersBody)
    ELSE IF httpMethod = "POST" /\ path = UsersPath
    THEN IF body.kind = "malformed"
         THEN createResponse("index.error", 500, UnknownId, TRUE,
                             HttpBody("An unexpected error occurred", Absent,
                                      Opt("Internal Server Error")))
         ELSE createResponse("index.users", 201, UnknownId, TRUE,
                             HttpBody("User created successfully", Absent, Absent))
    ELSE IF httpMethod = "GET" /\ hasId
    THEN createResponse("index.users", 200, UnknownId, TRUE,
                        HttpBody("User retrieved successfully", Absent, Absent))
    ELSE IF httpMethod = "PUT" /\ hasId
    THEN IF body.kind = "malformed"
         THEN createResponse("index.error", 500, UnknownId, TRUE,
                             HttpBody("An unexpected error occurred", Absent,
                                      Opt("Internal Server Error")))
         ELSE createResponse("index.users", 200, UnknownId, TRUE,
                             HttpBody("User updated successfully", Absent, Absent))
    ELSE IF httpMethod = "DELETE" /\ hasId
    THEN createResponse("index.users", 200, UnknownId, TRUE,
                        HttpBody("User deleted successfully", Absent, Absent))
    ELSE createResponse("index.users", 405, UnknownId, TRUE,
                        HttpBody("Method not allowed", Absent, Opt("Method Not Allowed")))

\* handleUsersEndpoint; hasId is pathParameters?.id, and JSON.parse of a body that is
\* not JSON throws into the handler's catch block
handleUsersEndpoint(httpMethod, path, hasId, body) ==
    IF httpMethod = "GET" /\ path = UsersPath
    THEN createResponse("index.users", 200, UnknownId, TRUE, UsersBody)
    ELSE IF httpMethod = "POST" /\ path = UsersPath
    THEN IF body.kind = "malformed"
         THEN createResponse("index.error", 500, UnknownId, TRUE,
                             HttpBody("An unexpected error occurred", Absent,
                                      Opt("Internal Server Error")))
         ELSE createResponse("index.users", 201, UnknownId, TRUE,
                             HttpBody("User created successfully", Absent, Absent))
    ELSE IF httpMethod = "GET" /\ hasId
    THEN createResponse("index.users", 200, UnknownId, TRUE,
                        HttpBody("User retrieved successfully", Absent, Absent))
    ELSE IF httpMethod = "PUT" /\ hasId
    THEN IF body.kind = "malformed"
         THEN createResponse("index.error", 500, UnknownId, TRUE,
                             HttpBody("An unexpected error occurred", Absent,
                                      Opt("Internal Server Error")))
         ELSE createResponse("index.users", 200, UnknownId, TRUE,
                             HttpBody("User updated successfully", Absent, Absent))
    ELSE IF httpMethod = "DELETE" /\ hasId
    THEN createResponse("index.users", 200, UnknownId, TRUE,
                        HttpBody("User deleted successfully", Absent, Absent))
    ELSE createResponse("index.users", 405, UnknownId, TRUE,
                        HttpBody("Method not allowed", Absent, Opt("Method Not Allowed")))

handleApiV1(httpMethod, path, hasId, body) ==
    IF StartsWith(path, UsersPath)
    THEN handleUsersEndpoint(httpMethod, path, hasId, body)
    ELSE NotFoundResponse("index.api", "API endpoint not found")

\* bodies of the requests to the index handler: none, text that is not JSON, an object
IndexBodies == {NoBody, BadJson, JsonBody(Absent, Absent)}

\* handler answering the health check on the path "/healthz"
IndexHandler_HealthOnOtherPath(httpMethod, path) ==
    IF path = <<"/", "healthz">> /\ httpMethod = "GET"
    THEN Respond(HealthResponse("index.health", "Service is healthy"))
    ELSE IF StartsWith(path, ApiV1Prefix)
    THEN \E hasId \in BOOLEAN, body \in IndexBodies :
            Respond(handleApiV1(httpMethod, path, hasId, body))
    ELSE Respond(NotFoundResponse("index.notfound", "Path not found"))

\* handler of index.ts: it keeps no state and calls no collaborator; pathParameters and
\* body are the event's
IndexHandler(httpMethod, path) ==
    IF path = HealthPath /\ httpMethod = "GET"
    THEN Respond(HealthResponse("index.health", "Service is healthy"))
    ELSE IF StartsWith(path, ApiV1Prefix)
    THEN \E hasId \in BOOLEAN, body \in IndexBodies :
            Respond(handleApiV1(httpMethod, path, hasId, body))
    ELSE Respond(NotFoundResponse("index.notfound", "Path not found"))

----------------------------------------------------------------------------
(* weather-processor.ts *)

\* updateProcessingStatus: the store's error is caught and logged
updateProcessingStatus(table, cityId, status, error, ok) ==
    IF ok THEN UpdateItem(table, cityId, status, error) ELSE table

\* the payload fetchWeatherData builds from the provider's answer
WeatherPayload == "weather"

\* outcomes of fetchWeatherData: the payload, or the message of the error thrown
FetchOutcomes == {"ok", "OpenWeather API key not configured", "Weather API error"}

\* updatedData carrying the city's name in its slug form instead of the received one
UpdatedData_SlugAsName(data, weatherData, ms) ==
    [data EXCEPT !.status = "weather_processing", !.weatherData = Opt(weatherData),
                 !.timestamp = ms,
                 !.cityName = IF @ = Absent THEN @ ELSE {Slug(n) : n \in @}]

\* {...processingData, status: "weather_processing", weatherData, timestamp}
UpdatedData(data, weatherData, ms) ==
    [data EXCEPT !.status = "weather_processing", !.weatherData = Opt(weatherData),
                 !.timestamp = ms]

\* the events a queue can hand to its handler: up to BatchSize of its visible messages,
\* in any order
Events(queue) ==
    LET ready == {m \in queue : m.visible /\ m.rc < MaxReceiveCount}
    IN  {<<m>> : m \in ready}
        \cup IF BatchSize >= 2
             THEN {e \in {<<m1, m2>> : m1 \in ready, m2 \in ready} : e[1].id # e[2].id}
             ELSE {}

\* ReceiveMessage of every record of an event
RECURSIVE ReceiveAll(_, _)
ReceiveAll(queue, records) ==
    IF records = <<>> THEN queue
    ELSE ReceiveAll(Receive(queue, Head(records)), Tail(records))

\* the handler is invoked with an event of several records
WeatherInvoke(records) ==
    /\ wpc = "idle" /\ wbatch.state # "running"
    /\ UNCHANGED faults
    /\ records \in Events(queueA)
    /\ queueA' = ReceiveAll(queueA, records)
    /\ wbatch' = Batch(records)
    /\ resp' = NoResp
    /\ UNCHANGED <<now, store, queueB, dlq, sns, nextMsg, IntakeVars, wpc, wmsg, wdata,
                   werr, LLMVars, History>>

\* the handler without a catch for the JSON.parse of a body that is not JSON: the
\* invocation ends with the error and the records not yet taken are not processed
WeatherNext_Uncaught ==
    /\ wpc = "idle" /\ wbatch.state = "running"
    /\ wbatch.taken < Len(wbatch.records)
    /\ UNCHANGED faults
    /\ LET m == wbatch.records[wbatch.taken + 1]
       IN  IF m.json
           THEN /\ wmsg' = m
                /\ wpc' = "status"
                /\ touched' = touched \cup {m.body.cityId}
                /\ wbatch' = [wbatch EXCEPT !.taken = @ + 1]
                /\ UNCHANGED queueA
           ELSE /\ queueA' = Release(queueA, m)
                /\ wbatch' = [wbatch EXCEPT !.state = "threw"]
                /\ UNCHANGED <<wmsg, wpc, touched>>
    /\ resp' = NoResp
    /\ UNCHANGED <<now, store, queueB, dlq, sns, nextMsg, IntakeVars, wdata, werr,
                   LLMVars, requests, accepted, provFailed, written>>

\* for (const record of event.Records) { try { await processWeatherRecord(record) }
\* catch { log } }: the loop takes the next record, and a body that is not JSON makes
\* JSON.parse throw into the handler's catch
WeatherNext ==
    /\ wpc = "idle" /\ wbatch.state = "running"
    /\ wbatch.taken < Len(wbatch.records)
    /\ UNCHANGED faults
    /\ LET m == wbatch.records[wbatch.taken + 1]
       IN  IF m.json
           THEN /\ wmsg' = m
                /\ wpc' = "status"
                /\ touched' = touched \cup {m.body.cityId}
                /\ UNCHANGED queueA
           ELSE /\ queueA' = Release(queueA, m)
                /\ UNCHANGED <<wmsg, wpc, touched>>
    /\ wbatch' = [wbatch EXCEPT !.taken = @ + 1]
    /\ resp' = NoResp
    /\ UNCHANGED <<now, store, queueB, dlq, sns, nextMsg, IntakeVars, wdata, werr,
                   LLMVars, requests, accepted, provFailed, written>>

\* the loop is over: the handler returns
WeatherReturn ==
    /\ wpc = "idle" /\ wbatch.state = "running"
    /\ wbatch.taken = Len(wbatch.records)
    /\ UNCHANGED faults
    /\ wbatch' = [wbatch EXCEPT !.state = "returned"]
    /\ resp' = NoResp
    /\ UNCHANGED <<now, store, queueA, queueB, dlq, sns, nextMsg, IntakeVars, wpc, wmsg,
                   wdata, werr, LLMVars, History>>

\* an invocation on one record, the batchSize of the event source mapping: the
\* handler's loop takes the record: JSON.parse(record.body) throws on a body that is
\* not JSON, the handler logs it and the message stays on the queue
WeatherReceive(m) ==
    /\ wpc = "idle"
    /\ UNCHANGED wbatch
    /\ UNCHANGED faults
    /\ m \in queueA /\ m.visible /\ m.rc < MaxReceiveCount
    /\ IF m.json
       THEN /\ queueA' = Receive(queueA, m)
            /\ wmsg' = m
            /\ wpc' = "status"
            /\ touched' = touched \cup {m.body.cityId}
       ELSE /\ queueA' = Release(Receive(queueA, m), m)
            /\ UNCHANGED <<wmsg, wpc, touched>>
    /\ resp' = NoResp
    /\ UNCHANGED <<now, store, queueB, dlq, sns, nextMsg, IntakeVars, wdata, werr,
                   LLMVars, requests, accepted, provFailed, written>>

\* the UpdateItem carrying a condition that the item is neither failed nor completed:
\* the store rejects the update of a redelivered message and the error is logged
WeatherStatus_Conditional(ok) ==
    /\ wpc = "status"
    /\ UNCHANGED wbatch
    /\ LET k == Key(wmsg.body.cityId, Latest)
           rejected == k \in DOMAIN store /\ store[k].status \in {"failed", "completed"}
       IN  IF rejected
           THEN UNCHANGED <<store, faults>>
           ELSE /\ Throws(~ok)
                /\ store' = updateProcessingStatus(store, wmsg.body.cityId,
                                                   "weather_processing", Absent, ok)
    /\ wpc' = "fetch"
    /\ resp' = NoResp
    /\ UNCHANGED <<now, queueA, queueB, dlq, sns, nextMsg, IntakeVars, wmsg, wdata, werr,
                   LLMVars, History>>

\* await updateProcessingStatus(cityId, "weather_processing")
WeatherStatus(ok) ==
    /\ wpc = "status"
    /\ UNCHANGED wbatch
    /\ Throws(~ok)
    /\ store' = updateProcessingStatus(store, wmsg.body.cityId, "weather_processing", Absent, ok)
    /\ wpc' = "fetch"
    /\ resp' = NoResp
    /\ UNCHANGED <<now, queueA, queueB, dlq, sns, nextMsg, IntakeVars, wmsg, wdata, werr,
                   LLMVars, History>>

\* await fetchWeatherData(cityName, countryCode), then updatedData
WeatherFetch(outcome, ms) ==
    /\ wpc = "fetch"
    /\ UNCHANGED wbatch
    /\ Throws(outcome # "ok")
    /\ IF outcome = "ok"
       THEN /\ wdata' = UpdatedData(wmsg.body, WeatherPayload, ms)
            /\ wpc' = "put"
            /\ UNCHANGED <<werr, provFailed>>
       ELSE /\ werr' = Opt(outcome)
            /\ wpc' = "f_status"
            /\ provFailed' = provFailed \cup {wmsg.body.cityId}
            /\ UNCHANGED wdata
    /\ resp' = NoResp
    /\ now' = ms
    /\ UNCHANGED <<store, queueA, queueB, dlq, sns, nextMsg, IntakeVars, wmsg,
                   LLMVars, requests, accepted, touched, written>>

\* processWeatherRecord catching the PutItem error and going on to the send
WeatherPut_ErrorIgnored(ok) ==
    /\ wpc = "put"
    /\ UNCHANGED wbatch
    /\ Throws(~ok)
    /\ written' = IF ok THEN written \cup {wdata} ELSE written
    /\ IF ok THEN /\ store' = PutItem(store, wdata)
                  /\ wpc' = "send"
                  /\ UNCHANGED werr
            ELSE /\ wpc' = "send"
                 /\ UNCHANGED <<store, werr>>
    /\ resp' = NoResp
    /\ UNCHANGED <<now, queueA, queueB, dlq, sns, nextMsg, IntakeVars, wmsg, wdata,
                   LLMVars, requests, accepted, touched,
                   provFailed>>

\* await dynamodb.send(new PutItemCommand({Item: marshall(updatedData)}))
WeatherPut(ok) ==
    /\ wpc = "put"
    /\ UNCHANGED wbatch
    /\ Throws(~ok)
    /\ written' = IF ok THEN written \cup {wdata} ELSE written
    /\ IF ok THEN /\ store' = PutItem(store, wdata)
                  /\ wpc' = "send"
                  /\ UNCHANGED werr
            ELSE /\ werr' = Opt("store error")
                 /\ wpc' = "f_status"
                 /\ UNCHANGED store
    /\ resp' = NoResp
    /\ UNCHANGED <<now, queueA, queueB, dlq, sns, nextMsg, IntakeVars, wmsg, wdata,
                   LLMVars, requests, accepted, touched,
                   provFailed>>

\* processWeatherRecord sending the record it received instead of updatedData
WeatherSend_ReceivedRecord(ok) ==
    /\ wpc = "send"
    /\ UNCHANGED wbatch
    /\ Throws(~ok)
    /\ IF ok THEN /\ queueB' = queueB \cup {Message(nextMsg, wmsg.body, wmsg.body.cityId,
                                                     wmsg.body.cityName)}
                  /\ nextMsg' = nextMsg + 1
                  /\ wpc' = "publish"
                  /\ UNCHANGED werr
            ELSE /\ werr' = Opt("queue error")
                 /\ wpc' = "f_status"
                 /\ UNCHANGED <<queueB, nextMsg>>
    /\ resp' = NoResp
    /\ UNCHANGED <<now, store, queueA, dlq, sns, IntakeVars, wmsg, wdata,
                   LLMVars, History>>

\* await sqs.send(new SendMessageCommand({QueueUrl: LLM_QUEUE_URL, ...}))
WeatherSend(ok) ==
    /\ wpc = "send"
    /\ UNCHANGED wbatch
    /\ Throws(~ok)
    /\ IF ok THEN /\ queueB' = queueB \cup {Message(nextMsg, wdata, wmsg.body.cityId,
                                                     wmsg.body.cityName)}
                  /\ nextMsg' = nextMsg + 1
                  /\ wpc' = "publish"
                  /\ UNCHANGED werr
            ELSE /\ werr' = Opt("queue error")
                 /\ wpc' = "f_status"
                 /\ UNCHANGED <<queueB, nextMsg>>
    /\ resp' = NoResp
    /\ UNCHANGED <<now, store, queueA, dlq, sns, IntakeVars, wmsg, wdata,
                   LLMVars, History>>

\* await sns.send(new PublishCommand({Subject: "Weather Data Retrieved", ...}))
WeatherPublish(ok) ==
    /\ wpc = "publish"
    /\ UNCHANGED wbatch
    /\ Throws(~ok)
    /\ IF ok THEN /\ sns' = Publish(sns, Notification("Weather Data Retrieved",
                                         [wdata EXCEPT !.llmDescription = Absent]))
                  /\ wpc' = "delete"
                  /\ UNCHANGED werr
            ELSE /\ werr' = Opt("notifier error")
                 /\ wpc' = "f_status"
                 /\ UNCHANGED sns
    /\ resp' = NoResp
    /\ UNCHANGED <<now, store, queueA, queueB, dlq, nextMsg, IntakeVars, wmsg, wdata,
                   LLMVars, History>>

\* await sqs.send(new DeleteMessageCommand(...)), the end of the try block
WeatherDelete(ok) ==
    /\ wpc = "delete"
    /\ UNCHANGED wbatch
    /\ Throws(~ok)
    /\ IF ok THEN /\ queueA' = DeleteMessage(queueA, wmsg)
                  /\ wpc' = "idle"
                  /\ wmsg' = NoMessage
                  /\ wdata' = NoData
                  /\ UNCHANGED werr
            ELSE /\ werr' = Opt("queue error")
                 /\ wpc' = "f_status"
                 /\ UNCHANGED <<queueA, wmsg, wdata>>
    /\ resp' = NoResp
    /\ UNCHANGED <<now, store, queueB, dlq, sns, nextMsg, IntakeVars, LLMVars, History>>

\* catch: await updateProcessingStatus(cityId, "failed", error.message)
WeatherFailStatus(ok) ==
    /\ wpc = "f_status"
    /\ UNCHANGED wbatch
    /\ Throws(~ok)
    /\ store' = updateProcessingStatus(store, wmsg.body.cityId, "failed", werr, ok)
    /\ wpc' = "f_publish"
    /\ resp' = NoResp
    /\ UNCHANGED <<now, queueA, queueB, dlq, sns, nextMsg, IntakeVars, wmsg, wdata, werr,
                   LLMVars, History>>

\* catch: await sns.send(new PublishCommand({Subject: "Weather Processing Failed", ...}));
\* an error thrown here leaves processWeatherRecord and is logged by the handler
WeatherFailPublish(ok) ==
    /\ wpc = "f_publish"
    /\ UNCHANGED wbatch
    /\ Throws(~ok)
    /\ IF ok THEN /\ sns' = Publish(sns, Notification("Weather Processing Failed",
                                [wmsg.body EXCEPT !.weatherData = Absent,
                                                  !.llmDescription = Absent, !.error = werr]))
                  /\ wpc' = "f_delete"
                  /\ UNCHANGED <<queueA, wmsg, wdata, werr>>
            ELSE /\ queueA' = Release(queueA, wmsg)
                 /\ wpc' = "idle"
                 /\ wmsg' = NoMessage
                 /\ wdata' = NoData
                 /\ werr' = Absent
                 /\ UNCHANGED sns
    /\ resp' = NoResp
    /\ UNCHANGED <<now, store, queueB, dlq, nextMsg, IntakeVars, LLMVars, History>>

\* catch: await sqs.send(new DeleteMessageCommand(...))
WeatherFailDelete(ok) ==
    /\ wpc = "f_delete"
    /\ UNCHANGED wbatch
    /\ Throws(~ok)
    /\ queueA' = IF ok THEN DeleteMessage(queueA, wmsg) ELSE Release(queueA, wmsg)
    /\ wpc' = "idle"
    /\ wmsg' = NoMessage
    /\ wdata' = NoData
    /\ werr' = Absent
    /\ resp' = NoResp
    /\ UNCHANGED <<now, store, queueB, dlq, sns, nextMsg, IntakeVars, LLMVars, History>>

\* the redrive policy moving a message only after one receive more than maxReceiveCount
DeadLetterA_OneReceiveMore(m) ==
    /\ m \in queueA /\ m.visible /\ m.rc > MaxReceiveCount
    /\ UNCHANGED faults
    /\ queueA' = DeleteMessage(queueA, m)
    /\ dlq' = dlq \cup {[queue |-> "city-processing-dlq", message |-> m]}
    /\ resp' = NoResp
    /\ UNCHANGED <<now, store, queueB, sns, nextMsg, IntakeVars, WeatherVars, LLMVars,
                   History>>

\* the queue's redrive policy: a message received maxReceiveCount times goes to the
\* dead-letter queue
DeadLetterA(m) ==
    /\ m \in queueA /\ m.visible /\ m.rc >= MaxReceiveCount
    /\ UNCHANGED faults
    /\ queueA' = DeleteMessage(queueA, m)
    /\ dlq' = dlq \cup {[queue |-> "city-processing-dlq", message |-> m]}
    /\ resp' = NoResp
    /\ UNCHANGED <<now, store, queueB, sns, nextMsg, IntakeVars, WeatherVars, LLMVars,
                   History>>

----------------------------------------------------------------------------
(* llm-processor.ts *)

\* generateWeatherDescription: `Fake description for ${cityName}\n`, returned before the
\* credential and weatherData checks that follow it; apiKey tells whether OPENAI_API_KEY
\* is set in the function's environment
generateWeatherDescription(data, apiKey) == <<"Fake description for", data.cityName>>

\* {...processingData, status: "completed", llmDescription, timestamp}
CompletedData(data, llmDescription, ms) ==
    [data EXCEPT !.status = "completed", !.llmDescription = Opt(llmDescription),
                 !.timestamp = ms]

\* the handler is invoked with an event of several records
LLMInvoke(records) ==
    /\ lpc = "idle" /\ lbatch.state # "running"
    /\ UNCHANGED faults
    /\ records \in Events(queueB)
    /\ queueB' = ReceiveAll(queueB, records)
    /\ lbatch' = Batch(records)
    /\ resp' = NoResp
    /\ UNCHANGED <<now, store, queueA, dlq, sns, nextMsg, IntakeVars, WeatherVars,
                   lpc, lmsg, ldata, lerr, History>>

\* for (const record of event.Records) { try { await processLLMRecord(record) }
\* catch { log } }
LLMNext ==
    /\ lpc = "idle" /\ lbatch.state = "running"
    /\ lbatch.taken < Len(lbatch.records)
    /\ UNCHANGED faults
    /\ LET m == lbatch.records[lbatch.taken + 1]
       IN  IF m.json
           THEN /\ lmsg' = m
                /\ lpc' = "status"
                /\ UNCHANGED queueB
           ELSE /\ queueB' = Release(queueB, m)
                /\ UNCHANGED <<lmsg, lpc>>
    /\ lbatch' = [lbatch EXCEPT !.taken = @ + 1]
    /\ resp' = NoResp
    /\ UNCHANGED <<now, store, queueA, dlq, sns, nextMsg, IntakeVars, WeatherVars,
                   ldata, lerr, History>>

\* the loop is over: the handler returns
LLMReturn ==
    /\ lpc = "idle" /\ lbatch.state = "running"
    /\ lbatch.taken = Len(lbatch.records)
    /\ UNCHANGED faults
    /\ lbatch' = [lbatch EXCEPT !.state = "returned"]
    /\ resp' = NoResp
    /\ UNCHANGED <<now, store, queueA, queueB, dlq, sns, nextMsg, IntakeVars, WeatherVars,
                   lpc, lmsg, ldata, lerr, History>>

\* an invocation on one record: the handler's loop takes the record,
\* JSON.parse(record.body)
LLMReceive(m) ==
    /\ lpc = "idle"
    /\ UNCHANGED lbatch
    /\ UNCHANGED faults
    /\ m \in queueB /\ m.visible /\ m.rc < MaxReceiveCount
    /\ IF m.json
       THEN /\ queueB' = Receive(queueB, m)
            /\ lmsg' = m
            /\ lpc' = "status"
       ELSE /\ queueB' = Release(Receive(queueB, m), m)
            /\ UNCHANGED <<lmsg, lpc>>
    /\ resp' = NoResp
    /\ UNCHANGED <<now, store, queueA, dlq, sns, nextMsg, IntakeVars, WeatherVars,
                   ldata, lerr, History>>

\* processLLMRecord with an updateProcessingStatus that rethrows the store's error
LLMStatus_ErrorIsFatal(ok) ==
    /\ lpc = "status"
    /\ UNCHANGED lbatch
    /\ Throws(~ok)
    /\ store' = updateProcessingStatus(store, lmsg.body.cityId, "llm_processing", Absent, ok)
    /\ IF ok THEN lpc' = "generate" /\ UNCHANGED lerr
             ELSE lpc' = "f_status" /\ lerr' = Opt("store error")
    /\ resp' = NoResp
    /\ UNCHANGED <<now, queueA, queueB, dlq, sns, nextMsg, IntakeVars, WeatherVars,
                   lmsg, ldata, History>>

\* await updateProcessingStatus(cityId, "llm_processing")
LLMStatus(ok) ==
    /\ lpc = "status"
    /\ UNCHANGED lbatch
    /\ Throws(~ok)
    /\ store' = updateProcessingStatus(store, lmsg.body.cityId, "llm_processing", Absent, ok)
    /\ lpc' = "generate"
    /\ resp' = NoResp
    /\ UNCHANGED <<now, queueA, queueB, dlq, sns, nextMsg, IntakeVars, WeatherVars,
                   lmsg, ldata, lerr, History>>

\* await generateWeatherDescription(processingData), then completedData
LLMGenerate(ms, apiKey) ==
    /\ lpc = "generate"
    /\ UNCHANGED lbatch
    /\ UNCHANGED faults
    /\ ldata' = CompletedData(lmsg.body, generateWeatherDescription(lmsg.body, apiKey), ms)
    /\ lpc' = "put"
    /\ resp' = NoResp
    /\ now' = ms
    /\ UNCHANGED <<store, queueA, queueB, dlq, sns, nextMsg, IntakeVars, WeatherVars,
                   lmsg, lerr, History>>

\* processLLMRecord with a put that leaves a job alone once it has a completed item
LLMPut_SkipsCompleted(ok) ==
    /\ lpc = "put"
    /\ UNCHANGED lbatch
    /\ Throws(~ok)
    /\ LET skip == \E k \in DOMAIN store :
                       k[1] = ldata.cityId /\ store[k].status = "completed"
       IN  /\ written' = IF ok /\ ~skip THEN written \cup {ldata} ELSE written
           /\ IF ok THEN /\ store' = IF skip THEN store ELSE PutItem(store, ldata)
                         /\ lpc' = "publish"
                         /\ UNCHANGED lerr
                   ELSE /\ lerr' = Opt("store error")
                        /\ lpc' = "f_status"
                        /\ UNCHANGED store
    /\ resp' = NoResp
    /\ UNCHANGED <<now, queueA, queueB, dlq, sns, nextMsg, IntakeVars, WeatherVars,
                   lmsg, ldata, requests, accepted, touched,
                   provFailed>>

\* await dynamodb.send(new PutItemCommand({Item: marshall(completedData)}))
LLMPut(ok) ==
    /\ lpc = "put"
    /\ UNCHANGED lbatch
    /\ Throws(~ok)
    /\ written' = IF ok THEN written \cup {ldata} ELSE written
    /\ IF ok THEN /\ store' = PutItem(store, ldata)
                  /\ lpc' = "publish"
                  /\ UNCHANGED lerr
            ELSE /\ lerr' = Opt("store error")
                 /\ lpc' = "f_status"
                 /\ UNCHANGED store
    /\ resp' = NoResp
    /\ UNCHANGED <<now, queueA, queueB, dlq, sns, nextMsg, IntakeVars, WeatherVars,
                   lmsg, ldata, requests, accepted, touched,
                   provFailed>>

\* processLLMRecord publishing the completion without the job's weatherData
LLMPublish_WithoutWeatherData(ok) ==
    /\ lpc = "publish"
    /\ UNCHANGED lbatch
    /\ Throws(~ok)
    /\ IF ok THEN /\ sns' = Publish(sns, Notification("Weather Processing Completed",
                                         [ldata EXCEPT !.error = Absent,
                                                       !.weatherData = Absent]))
                  /\ lpc' = "delete"
                  /\ UNCHANGED lerr
            ELSE /\ lerr' = Opt("notifier error")
                 /\ lpc' = "f_status"
                 /\ UNCHANGED sns
    /\ resp' = NoResp
    /\ UNCHANGED <<now, store, queueA, queueB, dlq, nextMsg, IntakeVars, WeatherVars,
                   lmsg, ldata, History>>

\* await sns.send(new PublishCommand({Subject: "Weather Processing Completed", ...}))
LLMPublish(ok) ==
    /\ lpc = "publish"
    /\ UNCHANGED lbatch
    /\ Throws(~ok)
    /\ IF ok THEN /\ sns' = Publish(sns, Notification("Weather Processing Completed",
                                         [ldata EXCEPT !.error = Absent]))
                  /\ lpc' = "delete"
                  /\ UNCHANGED lerr
            ELSE /\ lerr' = Opt("notifier error")
                 /\ lpc' = "f_status"
                 /\ UNCHANGED sns
    /\ resp' = NoResp
    /\ UNCHANGED <<now, store, queueA, queueB, dlq, nextMsg, IntakeVars, WeatherVars,
                   lmsg, ldata, History>>

\* await sqs.send(new DeleteMessageCommand(...)), the end of the try block
LLMDelete(ok) ==
    /\ lpc = "delete"
    /\ UNCHANGED lbatch
    /\ Throws(~ok)
    /\ IF ok THEN /\ queueB' = DeleteMessage(queueB, lmsg)
                  /\ lpc' = "idle"
                  /\ lmsg' = NoMessage
                  /\ ldata' = NoData
                  /\ UNCHANGED lerr
            ELSE /\ lerr' = Opt("queue error")
                 /\ lpc' = "f_status"
                 /\ UNCHANGED <<queueB, lmsg, ldata>>
    /\ resp' = NoResp
    /\ UNCHANGED <<now, store, queueA, dlq, sns, nextMsg, IntakeVars, WeatherVars, History>>

\* catch: await updateProcessingStatus(cityId, "failed", error.message)
LLMFailStatus(ok) ==
    /\ lpc = "f_status"
    /\ UNCHANGED lbatch
    /\ Throws(~ok)
    /\ store' = updateProcessingStatus(store, lmsg.body.cityId, "failed", lerr, ok)
    /\ lpc' = "f_publish"
    /\ resp' = NoResp
    /\ UNCHANGED <<now, queueA, queueB, dlq, sns, nextMsg, IntakeVars, WeatherVars,
                   lmsg, ldata, lerr, History>>

\* catch: await sns.send(new PublishCommand({Subject: "LLM Processing Failed", ...}))
LLMFailPublish(ok) ==
    /\ lpc = "f_publish"
    /\ UNCHANGED lbatch
    /\ Throws(~ok)
    /\ IF ok THEN /\ sns' = Publish(sns, Notification("LLM Processing Failed",
                                [lmsg.body EXCEPT !.weatherData = Absent,
                                                  !.llmDescription = Absent, !.error = lerr]))
                  /\ lpc' = "f_delete"
                  /\ UNCHANGED <<queueB, lmsg, ldata, lerr>>
            ELSE /\ queueB' = Release(queueB, lmsg)
                 /\ lpc' = "idle"
                 /\ lmsg' = NoMessage
                 /\ ldata' = NoData
                 /\ lerr' = Absent
                 /\ UNCHANGED sns
    /\ resp' = NoResp
    /\ UNCHANGED <<now, store, queueA, dlq, nextMsg, IntakeVars, WeatherVars, History>>

\* catch: await sqs.send(new DeleteMessageCommand(...))
LLMFailDelete(ok) ==
    /\ lpc = "f_delete"
    /\ UNCHANGED lbatch
    /\ Throws(~ok)
    /\ queueB' = IF ok THEN DeleteMessage(queueB, lmsg) ELSE Release(queueB, lmsg)
    /\ lpc' = "idle"
    /\ lmsg' = NoMessage
    /\ ldata' = NoData
    /\ lerr' = Absent
    /\ resp' = NoResp
    /\ UNCHANGED <<now, store, queueA, dlq, sns, nextMsg, IntakeVars, WeatherVars, History>>

\* the redrive policy of the queue the description handler reads
DeadLetterB(m) ==
    /\ m \in queueB /\ m.visible /\ m.rc >= MaxReceiveCount
    /\ UNCHANGED faults
    /\ queueB' = DeleteMessage(queueB, m)
    /\ dlq' = dlq \cup {[queue |-> "weather-processing-dlq", message |-> m]}
    /\ resp' = NoResp
    /\ UNCHANGED <<now, store, queueA, sns, nextMsg, IntakeVars, WeatherVars, LLMVars,
                   History>>

----------------------------------------------------------------------------
(* The system *)

EmptyTable == [k \in {} |-> NoData]
EmptyTopic == [n \in {} |-> 0]
NoAccepted == [j \in {} |-> Absent]

Init ==
    /\ now = 1
    /\ store = EmptyTable
    /\ queueA = {} /\ queueB = {} /\ dlq = {}
    /\ sns = EmptyTopic
    /\ nextMsg = 1
    /\ resp = NoResp
    /\ ipc = "idle" /\ idata = NoData
    /\ wpc = "idle" /\ wmsg = NoMessage /\ wdata = NoData /\ werr = Absent
    /\ lpc = "idle" /\ lmsg = NoMessage /\ ldata = NoData /\ lerr = Absent
    /\ wbatch = NoBatch /\ lbatch = NoBatch
    /\ faults = 0
    /\ requests = 0
    /\ accepted = NoAccepted
    /\ touched = {}
    /\ provFailed = {}
    /\ written = {}

Intake ==
    \/ \E body \in Bodies, ms \in Readings :
          Within(body, MaxRequests) /\ ProcessCityRequest(body, ms)
    \/ \E ok \in BOOLEAN : IntakePut(ok)
    \/ \E ok \in BOOLEAN : IntakeSend(ok)
    \/ \E ok \in BOOLEAN : IntakePublish(ok)

Status == \E cityId \in KnownIds, ok \in BOOLEAN : GetStatus(cityId, ok)

\* the steps of processWeatherRecord and of processLLMRecord after the record is parsed
EnrichmentSteps ==
    \/ \E ok \in BOOLEAN : WeatherStatus(ok)
    \/ \E o \in FetchOutcomes, ms \in Readings : WeatherFetch(o, ms)
    \/ \E ok \in BOOLEAN : WeatherPut(ok)
    \/ \E ok \in BOOLEAN : WeatherSend(ok)
    \/ \E ok \in BOOLEAN : WeatherPublish(ok)
    \/ \E ok \in BOOLEAN : WeatherDelete(ok)
    \/ \E ok \in BOOLEAN : WeatherFailStatus(ok)
    \/ \E ok \in BOOLEAN : WeatherFailPublish(ok)
    \/ \E ok \in BOOLEAN : WeatherFailDelete(ok)

DescriptionSteps ==
    \/ \E ok \in BOOLEAN : LLMStatus(ok)
    \/ \E ms \in Readings, apiKey \in BOOLEAN : LLMGenerate(ms, apiKey)
    \/ \E ok \in BOOLEAN : LLMPut(ok)
    \/ \E ok \in BOOLEAN : LLMPublish(ok)
    \/ \E ok \in BOOLEAN : LLMDelete(ok)
    \/ \E ok \in BOOLEAN : LLMFailStatus(ok)
    \/ \E ok \in BOOLEAN : LLMFailPublish(ok)
    \/ \E ok \in BOOLEAN : LLMFailDelete(ok)

Enrichment ==
    \/ \E m \in queueA : WeatherReceive(m)
    \/ EnrichmentSteps

Description ==
    \/ \E m \in queueB : LLMReceive(m)
    \/ DescriptionSteps

\* the redrive policy of both queues
Redrive ==
    \/ \E m \in queueA : DeadLetterA(m)
    \/ \E m \in queueB : DeadLetterB(m)

\* the records another producer puts on a queue: one as intake writes it, one as the
\* enrichment handler writes it
ForeignName == <<"N", " ", " ", "Y">>

ForeignRecords ==
    LET pending == NewProcessingData(JsonBody(Opt(ForeignName), Opt("GB")), 1)
    IN  { pending, UpdatedData(pending, WeatherPayload, 1) }

\* an SQS record reaches the queue the enrichment handler reads: the handler takes any
\* SQSRecord, its body JSON text or not
EnqueueA(data, json) ==
    /\ nextMsg <= MaxForeign
    /\ queueA' = queueA \cup {[Message(nextMsg, data, data.cityId, data.cityName)
                                  EXCEPT !.json = json]}
    /\ nextMsg' = nextMsg + 1
    /\ resp' = NoResp
    /\ UNCHANGED <<now, store, queueB, dlq, sns, IntakeVars, WeatherVars, LLMVars, faults,
                   History>>

\* an SQS record reaches the queue the description handler reads
EnqueueB(data, json) ==
    /\ nextMsg <= MaxForeign
    /\ queueB' = queueB \cup {[Message(nextMsg, data, data.cityId, data.cityName)
                                  EXCEPT !.json = json]}
    /\ nextMsg' = nextMsg + 1
    /\ resp' = NoResp
    /\ UNCHANGED <<now, store, queueA, dlq, sns, IntakeVars, WeatherVars, LLMVars, faults,
                   History>>

Foreign ==
    \/ \E data \in ForeignRecords : EnqueueA(data, TRUE)
    \/ EnqueueA(NoData, FALSE)
    \/ \E data \in ForeignRecords : EnqueueB(data, TRUE)
    \/ EnqueueB(NoData, FALSE)

Next == Intake \/ Status \/ Enrichment \/ Description

NextOpen == Enrichment \/ Description \/ Redrive \/ Foreign

\* the pipeline fed by POST /cities
Spec == Init /\ [][Next]_vars

\* the two queue-triggered handlers fed with any record, and the queues' redrive policy
SpecOpen == Init /\ [][NextOpen]_vars

Http ==
    \/ \E httpMethod \in Methods, path \in Paths : CityHandler(httpMethod, path)
    \/ \E ok \in BOOLEAN : IntakePut(ok)
    \/ \E ok \in BOOLEAN : IntakeSend(ok)
    \/ \E ok \in BOOLEAN : IntakePublish(ok)

Index ==
    \E httpMethod \in Methods, path \in Paths : IndexHandler(httpMethod, path)

NextHttp == Http \/ Index

\* the two handlers behind the API gateway
SpecHttp == Init /\ [][NextHttp]_vars

\* intake alone, given several requests with city names some of which share a slug
NamedBodies == { JsonBody(Opt(n), Opt("GB")) : n \in CityNames }

Submit ==
    \E body \in NamedBodies, ms \in Readings :
        Within(body, MaxIntake) /\ ProcessCityRequest(body, ms)

NextIntake ==
    \/ Submit
    \/ \E ok \in BOOLEAN : IntakePut(ok)
    \/ \E ok \in BOOLEAN : IntakeSend(ok)
    \/ \E ok \in BOOLEAN : IntakePublish(ok)

SpecIntake == Init /\ [][NextIntake]_vars

\* the two queue handlers invoked with events of several records; intake has accepted
\* two requests, and the body of a third message on its queue is not JSON
Request1 == NewProcessingData(JsonBody(Opt(<<"n">>), Opt("GB")), 1)
Request2 == NewProcessingData(JsonBody(Opt(<<"N", " ", " ", "Y">>), Opt("GB")), 1)

InitBatch ==
    /\ now = MaxTime
    /\ store = PutItem(PutItem(EmptyTable, Request1), Request2)
    /\ queueA \in
          { {Message(1, Request1, Request1.cityId, Request1.cityName),
             [Message(2, Request2, Request2.cityId, Request2.cityName) EXCEPT !.json = j]}
            : j \in BOOLEAN }
    /\ queueB = {} /\ dlq = {}
    /\ sns = Publish(Publish(EmptyTopic, Notification("City Processing Started", Request1)),
                     Notification("City Processing Started", Request2))
    /\ nextMsg = 3
    /\ resp = NoResp
    /\ ipc = "idle" /\ idata = NoData
    /\ wpc = "idle" /\ wmsg = NoMessage /\ wdata = NoData /\ werr = Absent
    /\ lpc = "idle" /\ lmsg = NoMessage /\ ldata = NoData /\ lerr = Absent
    /\ wbatch = NoBatch /\ lbatch = NoBatch
    /\ faults = 0
    /\ requests = 2
    /\ accepted = [j \in {Request1.cityId, Request2.cityId} |->
                      IF j = Request1.cityId THEN Request1.cityName ELSE Request2.cityName]
    /\ touched = {}
    /\ provFailed = {}
    /\ written = {Request1, Request2}

EnrichmentBatch ==
    \/ \E records \in Events(queueA) : WeatherInvoke(records)
    \/ WeatherNext
    \/ WeatherReturn
    \/ EnrichmentSteps

DescriptionBatch ==
    \/ \E records \in Events(queueB) : LLMInvoke(records)
    \/ LLMNext
    \/ LLMReturn
    \/ DescriptionSteps

NextBatch == EnrichmentBatch \/ DescriptionBatch

SpecBatch == InitBatch /\ [][NextBatch]_vars

\* an invocation goes on: every await of a handler is answered
FairSpecBatch == SpecBatch /\ WF_vars(EnrichmentBatch) /\ WF_vars(DescriptionBatch)

\* delivery is fair: a visible message is received, a running invocation takes its next
\* step, and the redrive policy is applied
Fairness == WF_vars(Enrichment) /\ WF_vars(Description) /\ WF_vars(Redrive)

FairSpecOpen == SpecOpen /\ Fairness

----------------------------------------------------------------------------
(* Intake and status lookup *)

\* C1: a GET /status/J answered from the store for a job J that POST /cities accepted
\* with 202, and that the enrichment handler has not touched, is 200 with status
\* "pending" and the cityName of the request
C1_AcceptedJobIsPending ==
    (/\ resp.route = "status"
     /\ resp.readOk
     /\ resp.cityId \in DOMAIN accepted
     /\ resp.cityId \notin touched)
    => (/\ resp.code = 200
        /\ resp.body.status = "pending"
        /\ resp.body.cityName = accepted[resp.cityId])

InvalidBody(body) == body.kind = "null" \/ (body.kind = "json" /\ Falsy(body.cityName))

\* C2: a POST /cities with no body, or with cityName missing or empty, is answered 400
\* and changes neither the store, nor a queue, nor the notifier
C2_InvalidRequestHasNoEffect ==
    [][\A body \in Bodies, ms \in Readings :
          (InvalidBody(body) /\ ProcessCityRequest(body, ms))
          => (/\ resp'.route = "cities" /\ resp'.code = 400
              /\ ipc' = "idle"
              /\ UNCHANGED <<store, queueA, queueB, dlq, sns, nextMsg>>)]_vars

C2_Witness == resp.route = "cities" /\ resp.code = 400 /\ store # EmptyTable

----------------------------------------------------------------------------
(* Job records *)

\* the items the table holds for a job
JobItems(table, cityId) ==
    [k \in { x \in DOMAIN table : x[1] = cityId } |-> table[k]]

JobIds == { k[1] : k \in DOMAIN store }

HasStatus(table, cityId, status) ==
    \E k \in DOMAIN table : k[1] = cityId /\ table[k].status = status

\* no invocation is running and no message can be received
Quiescent ==
    /\ ipc = "idle" /\ wpc = "idle" /\ lpc = "idle"
    /\ \A m \in queueA \cup queueB : m.rc >= MaxReceiveCount

\* C4: every item with status "completed" has weatherData and llmDescription and no
\* error, whatever decodable record the description handler was given
C4_CompletedIsPopulated ==
    \A k \in DOMAIN store :
        store[k].status = "completed" =>
            /\ store[k].weatherData # Absent
            /\ store[k].llmDescription # Absent
            /\ store[k].error = Absent

\* C5: a job whose weather provider call failed never has a message on Queue B, and
\* when the pipeline is quiescent the item the status lookup reads is "failed", with an
\* error and without llmDescription
C5_ProviderFailureEndsFailed ==
    \A j \in provFailed :
        /\ \A m \in queueB : m.body.cityId # j
        /\ Quiescent =>
              /\ Key(j, Latest) \in DOMAIN store
              /\ store[Key(j, Latest)].status = "failed"
              /\ store[Key(j, Latest)].error # Absent
              /\ store[Key(j, Latest)].llmDescription = Absent

\* the place of a status on the path pending, weather_processing, llm_processing,
\* completed, with failed at the end
Rank(status) ==
    CASE status = "pending" -> 0
      [] status = "weather_processing" -> 1
      [] status = "llm_processing" -> 2
      [] status = "completed" -> 3
      [] status = "failed" -> 4

\* C6: the status of an item never moves backwards along the path pending,
\* weather_processing, llm_processing, completed, failed
C6_StatusIsMonotonic ==
    [][\A k \in DOMAIN store :
          /\ k \in DOMAIN store'
          /\ Rank(store'[k].status) >= Rank(store[k].status)]_vars

\* C7: once a job has an item with status "completed", no step changes the job's items
C7_CompletedIsFinal ==
    [][\A j \in JobIds :
          HasStatus(store, j, "completed") => JobItems(store', j) = JobItems(store, j)]_vars

\* C8: once a job has an item with status "failed", no step changes the job's items
C8_FailedIsFinal ==
    [][\A j \in JobIds :
          HasStatus(store, j, "failed") => JobItems(store', j) = JobItems(store, j)]_vars

\* C9: a message is on Queue A only when intake's store write of its record has taken
\* effect, and on Queue B only when the enrichment handler's store write of its enriched
\* record has taken effect
C9_PersistenceBeforeHandOff ==
    /\ \A m \in queueA : m.body \in written /\ m.body.status = "pending"
    /\ \A m \in queueB :
          /\ m.body \in written
          /\ m.body.status = "weather_processing"
          /\ m.body.weatherData # Absent

C9_Witness == queueB # {} /\ faults > 0

\* C10: when intake's store write and Queue A send succeeded, the request is answered
\* 202 whatever the notifier's publish does
C10_PublishFailureIsNotAnError ==
    [][(ipc = "publish" /\ ipc' = "idle") => (resp'.route = "cities" /\ resp'.code = 202)]_vars

----------------------------------------------------------------------------
(* Delivery and termination *)

\* C11: an invocation of the enrichment or of the description handler on a decodable
\* message ends with the step that issues the delete of that message, whatever failed
\* before
C11_DecodableMessageDeleteIssued ==
    [][/\ (wpc # "idle" /\ wpc' = "idle") => wpc \in {"delete", "f_delete"}
       /\ (lpc # "idle" /\ lpc' = "idle") => lpc \in {"delete", "f_delete"}]_vars

\* the ids a message can get: the records of other producers, and one Queue B message
\* for each delivery of a Queue A message
MsgIds == 1..(MaxForeign * (MaxReceiveCount + 1))

OnQueue(id) == \E m \in queueA \cup queueB : m.id = id

\* C12: no message is received more than maxReceiveCount times, and under fair delivery
\* every message on Queue A or Queue B eventually leaves its queue, deleted or moved to
\* the dead-letter queue
C12_NoMessageRetriedForever ==
    /\ [](\A m \in queueA \cup queueB : m.rc <= MaxReceiveCount)
    /\ \A id \in MsgIds : OnQueue(id) ~> ~OnQueue(id)

C12_Witness ==
    /\ \E d \in dlq : d.message.rc = MaxReceiveCount
    /\ queueA = {} /\ queueB = {}

\* no message of the job is on a queue
NoMessageFor(cityId) == \A m \in queueA \cup queueB : m.body.cityId # cityId

\* C13: when no invocation is running and no message of an accepted job is on a queue,
\* the job has an item with status "completed" or "failed"
C13_AcceptedJobTerminates ==
    \A j \in DOMAIN accepted :
        (ipc = "idle" /\ wpc = "idle" /\ lpc = "idle" /\ NoMessageFor(j))
        => (HasStatus(store, j, "completed") \/ HasStatus(store, j, "failed"))

\* the enrichment handler is on a message delivered before, for a job that has a failed
\* or a completed item
OnRedeliveryOfFinishedJob ==
    /\ wpc # "idle"
    /\ wmsg.rc >= 1
    /\ \/ HasStatus(store, wmsg.body.cityId, "failed")
       \/ HasStatus(store, wmsg.body.cityId, "completed")

\* C14: on a redelivered Queue A message of a job already failed or completed, a store
\* write of the enrichment handler that the store does not fail takes effect as an
\* overwrite and the invocation goes on along the success path
C14_RedeliveryOverwrites ==
    [][(OnRedeliveryOfFinishedJob /\ wpc' # wpc /\ faults' = faults)
       => /\ wpc = "status" =>
                /\ store' = UpdateItem(store, wmsg.body.cityId, "weather_processing", Absent)
                /\ wpc' = "fetch"
          /\ wpc = "put" =>
                /\ store' = PutItem(store, wdata)
                /\ wpc' = "send"]_vars

C14_Witness == OnRedeliveryOfFinishedJob /\ wpc = "send" /\ wdata \in written

----------------------------------------------------------------------------
(* Shape of the stored records *)

\* C15: every item of the table is stored under the sort key "latest", so the table
\* holds at most one item for a cityId
C15_OneRecordPerJob == \A k \in DOMAIN store : k[2] = Latest

\* C16: an item has weatherData exactly when its status is llm_processing, completed, or
\* failed after describing; an item with status pending or weather_processing has none
C16_WeatherDataIffDescribing ==
    \A k \in DOMAIN store :
        /\ store[k].status \in {"pending", "weather_processing"} => store[k].weatherData = Absent
        /\ store[k].status \in {"llm_processing", "completed"} => store[k].weatherData # Absent

----------------------------------------------------------------------------
(* Routing *)

\* the handler's step touches neither the store, nor a queue, nor the notifier, and no
\* call to one of them threw
NoOperation == UNCHANGED <<store, queueA, queueB, dlq, sns, nextMsg, ipc, faults>>

\* C17: GET /health can be answered in every state, and both handlers answer it 200 with
\* status "OK" from the health branch without an operation on the store, a queue or the
\* notifier
C17_HealthIsAlwaysOk ==
    /\ [](ENABLED CityHandler("GET", HealthPath))
    /\ [][CityHandler("GET", HealthPath)
            => /\ resp'.route = "health" /\ resp'.code = 200
               /\ resp'.body.status = Opt("OK")
               /\ NoOperation]_vars
    /\ [][IndexHandler("GET", HealthPath)
            => /\ resp'.route = "index.health" /\ resp'.code = 200
               /\ resp'.body.status = Opt("OK")
               /\ NoOperation]_vars

C17_Witness ==
    /\ resp.route = "health" /\ resp.code = 200
    /\ store # EmptyTable /\ queueA # {} /\ faults > 0

\* the request matches none of GET /health, GET /status/..., POST /cities
CityUnrouted(httpMethod, path) ==
    /\ ~(httpMethod = "GET" /\ path = HealthPath)
    /\ ~(httpMethod = "GET" /\ StartsWith(path, StatusPrefix))
    /\ ~(httpMethod = "POST" /\ path = CitiesPath)

\* the request is not GET /health and its path is not under /api/v1
IndexUnrouted(httpMethod, path) ==
    /\ ~(httpMethod = "GET" /\ path = HealthPath)
    /\ ~StartsWith(path, ApiV1Prefix)

\* C18: a request that matches no route is answered 404 with error "Not Found" from the
\* handler's last return, without an operation on the store, a queue or the notifier
C18_UnroutedIsNotFound ==
    /\ [][\A httpMethod \in Methods, path \in Paths :
            (CityUnrouted(httpMethod, path) /\ CityHandler(httpMethod, path))
            => /\ resp'.route = "notfound" /\ resp'.code = 404
               /\ resp'.body.error = Opt("Not Found")
               /\ NoOperation]_vars
    /\ [][\A httpMethod \in Methods, path \in Paths :
            (IndexUnrouted(httpMethod, path) /\ IndexHandler(httpMethod, path))
            => /\ resp'.route = "index.notfound" /\ resp'.code = 404
               /\ resp'.body.error = Opt("Not Found")
               /\ NoOperation]_vars

C18_Witness ==
    /\ resp.route = "notfound" /\ resp.code = 404
    /\ store # EmptyTable /\ queueA # {}

----------------------------------------------------------------------------
(* The stages' steps *)

\* C19: on the success path of the enrichment handler the store put comes first, then
\* the Queue B send, then the publish of "Weather Data Retrieved", then the Queue A
\* delete; the record put has status weather_processing and the fetched weatherData,
\* and the body of the Queue B message is that record
C19_EnrichmentSuccessOrder ==
    [][/\ (wpc' = "send" /\ wpc # "send") =>
             /\ wpc = "put"
             /\ store' = PutItem(store, wdata)
             /\ wdata.status = "weather_processing"
             /\ wdata.weatherData = Opt(WeatherPayload)
             /\ UNCHANGED <<queueA, queueB, sns>>
       /\ (wpc' = "publish" /\ wpc # "publish") =>
             /\ wpc = "send"
             /\ wdata \in written
             /\ queueB' = queueB \cup {Message(nextMsg, wdata, wmsg.body.cityId,
                                                wmsg.body.cityName)}
             /\ UNCHANGED <<store, queueA, sns>>
       /\ (wpc' = "delete" /\ wpc # "delete") =>
             /\ wpc = "publish"
             /\ \E n \in DOMAIN sns' :
                   /\ n.subject = "Weather Data Retrieved"
                   /\ n.cityId = wdata.cityId
                   /\ sns' = Publish(sns, n)
             /\ UNCHANGED <<store, queueA, queueB>>
       /\ (wpc = "delete" /\ wpc' = "idle") =>
             /\ queueA' = DeleteMessage(queueA, wmsg)
             /\ wmsg \notin queueA'
             /\ UNCHANGED <<store, queueB, sns>>]_vars

C19_Witness ==
    /\ wpc = "idle" /\ queueA = {} /\ faults = 0
    /\ \E m \in queueB : m.body \in written /\ m.body.weatherData = Opt(WeatherPayload)
    /\ \E n \in DOMAIN sns : n.subject = "Weather Data Retrieved"

\* C20: the failure path of the enrichment and of the description handler leaves the
\* item of the job under the key the status lookup reads with status "failed" and the
\* failure's message as error, and publishes one failure notification
C20_FailureIsRecordedAndNotified ==
    [][/\ (wpc = "f_status" /\ wpc' # wpc) =>
             LET k == Key(wmsg.body.cityId, Latest)
             IN  /\ k \in DOMAIN store'
                 /\ store'[k].status = "failed"
                 /\ store'[k].error = werr
       /\ (wpc = "f_publish" /\ wpc' # wpc) =>
             \E n \in DOMAIN sns' :
                 /\ n.subject = "Weather Processing Failed"
                 /\ sns' = Publish(sns, n)
       /\ (lpc = "f_status" /\ lpc' # lpc) =>
             LET k == Key(lmsg.body.cityId, Latest)
             IN  /\ k \in DOMAIN store'
                 /\ store'[k].status = "failed"
                 /\ store'[k].error = lerr
       /\ (lpc = "f_publish" /\ lpc' # lpc) =>
             \E n \in DOMAIN sns' :
                 /\ n.subject = "LLM Processing Failed"
                 /\ sns' = Publish(sns, n)]_vars

\* C21: on the success path of the description handler the record is put with status
\* completed and llmDescription before the publish of "Weather Processing Completed",
\* the notification carries the job's weatherData and llmDescription, and the Queue B
\* delete comes last
C21_DescriptionSuccessOrder ==
    [][/\ (lpc' = "publish" /\ lpc # "publish") =>
             /\ lpc = "put"
             /\ store' = PutItem(store, ldata)
             /\ ldata.status = "completed"
             /\ ldata.llmDescription # Absent
             /\ UNCHANGED <<queueB, sns>>
       /\ (lpc' = "delete" /\ lpc # "delete") =>
             /\ lpc = "publish"
             /\ ldata \in written
             /\ \E n \in DOMAIN sns' :
                   /\ n.subject = "Weather Processing Completed"
                   /\ n.cityId = lmsg.body.cityId
                   /\ n.weatherData = lmsg.body.weatherData
                   /\ n.weatherData # Absent
                   /\ n.llmDescription = ldata.llmDescription
                   /\ sns' = Publish(sns, n)
             /\ lmsg.id \in { m.id : m \in queueB }
             /\ UNCHANGED <<store, queueB>>
       /\ (lpc = "delete" /\ lpc' = "idle") =>
             /\ queueB' = DeleteMessage(queueB, lmsg)
             /\ UNCHANGED <<store, sns>>]_vars

C21_Witness ==
    /\ lpc = "idle" /\ queueB = {} /\ faults = 0
    /\ \E k \in DOMAIN store : store[k].status = "completed"
    /\ \E n \in DOMAIN sns : n.subject = "Weather Processing Completed"

\* C22: when the text-generation credential is absent, the generation step of the
\* description handler throws and the invocation takes its failure path instead of
\* writing a completed record
C22_MissingCredentialFailsTheJob ==
    [][\A ms \in Readings :
          LLMGenerate(ms, FALSE) => (lpc' = "f_status" /\ lerr' # Absent)]_vars

----------------------------------------------------------------------------
(* Failures of single steps *)

\* C23: the update that sets the in-progress status at the start of a stage may fail
\* without effect on the invocation: the handler goes on to the provider call with the
\* same record and no error caught, whether the update took effect or threw
C23_InProgressUpdateFailureIsNotFatal ==
    [][/\ (wpc = "status" /\ wpc' # wpc) =>
             /\ wpc' = "fetch"
             /\ faults' # faults => store' = store
             /\ UNCHANGED <<wmsg, wdata, werr, queueA, queueB, sns>>
       /\ (lpc = "status" /\ lpc' # lpc) =>
             /\ lpc' = "generate"
             /\ faults' # faults => store' = store
             /\ UNCHANGED <<lmsg, ldata, lerr, queueA, queueB, sns>>]_vars

C23_Witness ==
    /\ lpc = "generate" /\ lerr = Absent /\ faults > 0
    /\ Key(lmsg.body.cityId, Latest) \in DOMAIN store
    /\ store[Key(lmsg.body.cityId, Latest)].status # "llm_processing"

\* C24: while the enrichment invocation on the first delivery of a job's message has a
\* store write ahead of it, the description handler has not started on that job
C24_StagesDoNotRace ==
    ~(/\ wpc \in {"status", "put", "f_status"}
      /\ lpc # "idle"
      /\ wmsg.rc = 0 /\ lmsg.rc = 0
      /\ lmsg.body.cityId = wmsg.body.cityId)

\* C25: in intake a store write or a Queue A send that throws is answered 500; after a
\* store write that throws the request sends no message and publishes no notification
C25_IntakeFailureIs500 ==
    [][/\ IntakePut(FALSE) =>
             /\ resp'.route = "cities" /\ resp'.code = 500
             /\ ipc' = "idle"
             /\ UNCHANGED <<store, queueA, sns, accepted, nextMsg>>
       /\ IntakeSend(FALSE) =>
             /\ resp'.route = "cities" /\ resp'.code = 500
             /\ ipc' = "idle"
             /\ UNCHANGED <<queueA, sns, accepted, nextMsg>>]_vars

C25_Witness ==
    /\ resp.route = "cities" /\ resp.code = 500
    /\ store = EmptyTable /\ queueA = {} /\ sns = EmptyTopic
    /\ requests > 0 /\ faults > 0

C27_ErrorOnlyWhenFailed ==
    \A k \in DOMAIN store : store[k].error # Absent => store[k].status = "failed"

----------------------------------------------------------------------------
(* Fields of a job *)

\* the records intake has stored for a cityId
Created(cityId) == {r \in written : r.status = "pending" /\ r.cityId = cityId}

\* the cityId, and the cityName and the countryCode where the record has them, are those
\* of a record intake stored
SameIdentity(record) ==
    \E c \in Created(record.cityId) :
        /\ record.cityName # Absent => record.cityName = c.cityName
        /\ record.countryCode # Absent => record.countryCode = c.countryCode

\* C28: every stored item is stored under its own cityId, and the cityId, cityName and
\* countryCode found in a stored item or in a message of Queue A or Queue B are the
\* values of the record intake created for that job
C28_IdentityIsKept ==
    /\ \A k \in DOMAIN store : store[k].cityId = k[1] /\ SameIdentity(store[k])
    /\ \A m \in queueA \cup queueB : m.json => SameIdentity(m.body)

\* the job has reached its completed record with the names intake gave it, and a message
\* of the job is on Queue B
C28_Witness ==
    /\ \E k \in DOMAIN store : /\ store[k].status = "completed"
                                /\ store[k].cityName # Absent
                                /\ store[k].countryCode # Absent
    /\ \E m \in queueB : m.json /\ m.body.cityName # Absent

\* C29: weatherData is written at most once for a job and so is llmDescription: the
\* enrichment handler stores at most one record with weatherData for a cityId and the
\* description handler at most one record with llmDescription
C29_StageDataWrittenOnce ==
    \A r1, r2 \in written :
        (r1.cityId = r2.cityId /\ r1.status = r2.status
            /\ r1.status \in {"weather_processing", "completed"})
        => r1 = r2

\* the records of the requests that passed validation: those stored and the one in hand
Validated == {r \in written : r.status = "pending"} \cup (IF ipc = "idle" THEN {} ELSE {idata})

\* C30: the cityId of a request is the lower-cased cityName with each run of whitespace
\* replaced by "-", then "-", then the time in milliseconds in decimal; two requests
\* that passed validation have the same cityId exactly when their slugs are equal and
\* their times are equal
C30_CityIdDerivation ==
    /\ Slug(<<"N", " ", " ", "Y">>) = <<"n", "-", "y">>
    /\ Slug(<<"n", " ", "y">>) = <<"n", "-", "y">>
    /\ Slug(<<"n", "-", "y">>) = <<"n", "-", "y">>
    /\ Slug(<<"n">>) = <<"n">>
    /\ \A r \in Validated : \A n \in r.cityName :
          r.cityId = Slug(n) \o <<"-">> \o Decimal(r.timestamp)
    /\ \A r1, r2 \in Validated : \A n1 \in r1.cityName, n2 \in r2.cityName :
          r1.cityId = r2.cityId <=> (Slug(n1) = Slug(n2) /\ r1.timestamp = r2.timestamp)

\* two requests with different city names were given the same cityId, and of their two
\* records the table holds the later one only
C30_Witness ==
    \E r1, r2 \in written :
        /\ r1.status = "pending" /\ r2.status = "pending"
        /\ r1.cityName # r2.cityName
        /\ r1.cityId = r2.cityId
        /\ Cardinality({k \in DOMAIN store : k[1] = r1.cityId}) = 1

----------------------------------------------------------------------------
(* Messages, reads and the wiring of the queues *)

\* the ids of the messages a queue holds
IdsOn(queue) == {m.id : m \in queue}

\* the attributes of the message are the cityId and the cityName of its body
AttributesOfBody(m) ==
    m.attributes = [cityId |-> m.body.cityId, cityName |-> m.body.cityName]

\* C31: a message that comes on Queue A has as body the whole record intake has just
\* put, one that comes on Queue B the whole record the enrichment handler has just
\* put, and the cityId and cityName attributes of every message on a queue are those of
\* its body
C31_MessageIsThePersistedRecord ==
    [][/\ \A m \in queueA' : m.id \notin IdsOn(queueA)
              => (ipc = "send" /\ m.body = idata /\ idata \in written)
       /\ \A m \in queueB' : m.id \notin IdsOn(queueB)
              => (wpc = "send" /\ m.body = wdata /\ wdata \in written)
       /\ \A m \in queueA' \cup queueB' : AttributesOfBody(m)]_vars

\* the enriched record of a job is on Queue B with the job's names as attributes
C31_Witness ==
    \E m \in queueB :
        /\ m.body.weatherData # Absent /\ m.body \in written
        /\ m.attributes.cityName # Absent /\ m.attributes.cityName = m.body.cityName
        /\ m.attributes.cityId = m.body.cityId

\* C32: a step that answers GET /status/{cityId}, with 200, 404 or 500, leaves the
\* table, both queues, the dead-letter queues and the notifier as they were, and no step
\* of any handler takes an item out of the table
C32_StatusOnlyReads ==
    [][/\ resp'.route = "status"
          => /\ resp'.code \in {200, 404, 500}
             /\ UNCHANGED <<store, queueA, queueB, dlq, sns>>
       /\ \A k \in DOMAIN store : k \in DOMAIN store']_vars

\* the status of a job in progress was read and answered 200
C32_Witness ==
    /\ resp.route = "status" /\ resp.code = 200
    /\ Key(resp.cityId, Latest) \in DOMAIN store
    /\ queueA \cup queueB # {}

\* the queues the stack declares
cityProcessingQueue == "city-processing-queue"
weatherProcessingQueue == "weather-processing-queue"

\* the queue URLs in the environment the stack gives each function; a variable the
\* stack does not set is absent
CityProcessorEnv ==
    [CITY_QUEUE_URL |-> Opt(cityProcessingQueue),
     WEATHER_QUEUE_URL |-> Opt(weatherProcessingQueue),
     LLM_QUEUE_URL |-> Absent]

WeatherProcessorEnv ==
    [CITY_QUEUE_URL |-> Opt(cityProcessingQueue),
     WEATHER_QUEUE_URL |-> Absent,
     LLM_QUEUE_URL |-> Absent]

LLMProcessorEnv ==
    [CITY_QUEUE_URL |-> Absent, WEATHER_QUEUE_URL |-> Absent, LLM_QUEUE_URL |-> Absent]

\* the queue each event source mapping feeds its function from
WeatherEventSource == cityProcessingQueue
LLMEventSource == weatherProcessingQueue

\* the QueueUrl of the commands the handlers send
IntakeSendUrl == CityProcessorEnv.CITY_QUEUE_URL
WeatherSendUrl == WeatherProcessorEnv.LLM_QUEUE_URL
WeatherDeleteUrl == WeatherProcessorEnv.WEATHER_QUEUE_URL
LLMDeleteUrl == LLMProcessorEnv.LLM_QUEUE_URL

\* C33: when the enrichment handler issues its delete, the queue the command names is
\* the queue its message came from, which is the queue intake sends to; when the
\* description handler issues its delete, the queue the command names is the queue its
\* message came from, which is the queue the enrichment handler sends to
C33_DeleteNamesTheSourceQueue ==
    [][/\ (wpc \in {"delete", "f_delete"} /\ wpc' # wpc)
          => /\ WeatherDeleteUrl = Opt(WeatherEventSource)
             /\ IntakeSendUrl = Opt(WeatherEventSource)
       /\ (lpc \in {"delete", "f_delete"} /\ lpc' # lpc)
          => /\ LLMDeleteUrl = Opt(LLMEventSource)
             /\ WeatherSendUrl = Opt(LLMEventSource)]_vars

----------------------------------------------------------------------------
(* Invocations on several records *)

\* a change of the state of an invocation is the loop taking its next record, or the
\* return when every record was taken
LoopGoesOn(batch, batchAfter) ==
    (batch.state = "running" /\ batchAfter # batch)
    => \/ batchAfter = [batch EXCEPT !.taken = @ + 1] /\ batch.taken < Len(batch.records)
       \/ batchAfter = [batch EXCEPT !.state = "returned"]
            /\ batch.taken = Len(batch.records)

\* C34: an invocation of the enrichment or of the description handler never ends with
\* an error; the end of the work on a record, whatever failed in it, leaves the
\* invocation running with its other records still to take; the invocation takes its
\* records one after the other, returns only when all were taken, and does return
C34_InvocationReturns ==
    /\ [](wbatch.state # "threw" /\ lbatch.state # "threw")
    /\ [][(wpc # "idle" /\ wpc' = "idle") => (wbatch.state = "running" /\ wbatch' = wbatch)]_vars
    /\ [][(lpc # "idle" /\ lpc' = "idle") => (lbatch.state = "running" /\ lbatch' = lbatch)]_vars
    /\ [][LoopGoesOn(wbatch, wbatch') /\ LoopGoesOn(lbatch, lbatch')]_vars
    /\ []<>(wbatch.state # "running")
    /\ []<>(lbatch.state # "running")

\* the enrichment handler has returned from an event of two records: the work on the
\* first ended with an error thrown inside its failure path, so that its message is
\* back on the queue, and the second was enriched after it
C34_Witness ==
    /\ wbatch.state = "returned" /\ Len(wbatch.records) = 2
    /\ wbatch.records[1].json
    /\ \E m \in queueA : m.id = wbatch.records[1].id /\ m.visible /\ m.rc = 1
    /\ \E r \in written : /\ r.cityId = wbatch.records[2].body.cityId
                          /\ r.status = "weather_processing"
    /\ faults = 2

----------------------------------------------------------------------------
(* The users endpoints of index.ts *)

\* C35: whatever the request carries and whatever requests were handled before, the
\* index handler answers GET /api/v1/users with 200, the message "Users retrieved
\* successfully" and the same array of users
C35_UsersListIsFixed ==
    [][IndexHandler("GET", UsersPath)
          => /\ resp'.route = "index.users" /\ resp'.code = 200
             /\ resp'.body.message = "Users retrieved successfully"
             /\ resp'.body.users = Opt(UsersList)
             /\ Len(UsersList) = 2]_vars

\* the list was answered after the city handler had accepted a request
C35_Witness ==
    /\ resp.route = "index.users" /\ resp.code = 200
    /\ resp.body.users = Opt(UsersList)
    /\ requests > 0

====
